---- MODULE Spec2Model ----
(***************************************************************************)
(* Insight-AI backend: the voice service (openvoice_service/main.py), the  *)
(* transcription service (whisper_service) and the checkpoint download     *)
(* script, modelled as state machines over the files they keep on disk.    *)
(*                                                                         *)
(* File names are sequences of one-character strings, so that the string   *)
(* operations of the code (lower, endswith, split, pathlib's suffix and    *)
(* with_suffix, f-string concatenation) are computed, not assumed.         *)
(*                                                                         *)
(* A request handler is a sequence of steps, one per call that reads or    *)
(* writes the storage directory.  The steps of the requests held by the    *)
(* two Workers interleave: this covers the service run by one process (a   *)
(* handler then runs to its end before the next starts, one of the         *)
(* interleavings) and by several worker processes over the same directory. *)
(***************************************************************************)
EXTENDS Integers, Sequences, FiniteSets, TLC

VARIABLES
    base_speaker_tts,      \* main.py:39   "None" | "constructed" | "loaded"
    tone_color_converter,  \* main.py:40   "None" | "constructed" | "loaded"
    initPc,                \* "boot" until the module-level initialization ran
    initFailure,           \* which step of the initialization failed ("none": all ran)
    fs,                    \* the storage directory: file name -> content
    req,                   \* per worker: the request it holds and its locals
    served,                \* number of requests accepted so far
    ck                     \* the checkpoint download script's run

vars == <<base_speaker_tts, tone_color_converter, initPc, initFailure, fs, req, served, ck>>

\* ---------------------------------------------------------------- bounds

\* Requests accepted in one behaviour.
MaxRequests == 2
\* Runs of the checkpoint download script in one behaviour.
MaxRuns == 2
\* Chunks of one download body (iter_content).
MaxChunks == 2

Workers == {"w1", "w2"}

\* --------------------------------------------------------------- strings

UpperAlpha == <<"A","B","C","D","E","F","G","H","I","J","K","L","M",
                "N","O","P","Q","R","S","T","U","V","W","X","Y","Z">>
LowerAlpha == <<"a","b","c","d","e","f","g","h","i","j","k","l","m",
                "n","o","p","q","r","s","t","u","v","w","x","y","z">>

\* str.lower() on one character.
LowerChar(c) ==
    IF \E i \in 1..Len(UpperAlpha) : UpperAlpha[i] = c
    THEN LowerAlpha[CHOOSE i \in 1..Len(UpperAlpha) : UpperAlpha[i] = c]
    ELSE c

\* str.lower()
Lower(s) == [i \in 1..Len(s) |-> LowerChar(s[i])]

\* str.endswith(suf)
EndsWith(s, suf) ==
    /\ Len(s) >= Len(suf)
    /\ SubSeq(s, Len(s) - Len(suf) + 1, Len(s)) = suf

\* str.rfind(c), 1-based; 0 when c does not occur.
RFind(s, c) ==
    IF \E i \in 1..Len(s) : s[i] = c
    THEN CHOOSE i \in 1..Len(s) : s[i] = c /\ \A j \in (i+1)..Len(s) : s[j] # c
    ELSE 0

\* pathlib.PurePath.suffix of a name without directory part.
Suffix(p) ==
    LET i == RFind(p, ".")
    IN  IF i > 1 /\ i < Len(p) THEN SubSeq(p, i, Len(p)) ELSE <<>>

\* pathlib.PurePath.with_suffix(suf)
WithSuffix(p, suf) == SubSeq(p, 1, Len(p) - Len(Suffix(p))) \o suf

\* The position after the last occurrence of sep in s (0: sep does not occur).
LastSplit(s, sep) ==
    LET hits == {i \in 1..(Len(s) - Len(sep) + 1) : SubSeq(s, i, i + Len(sep) - 1) = sep}
    IN  IF hits = {} THEN 0
        ELSE (CHOOSE i \in hits : \A j \in hits : j <= i) + Len(sep)

\* s.split(sep)[-1]
SplitLast(s, sep) ==
    IF LastSplit(s, sep) = 0 THEN s ELSE SubSeq(s, LastSplit(s, sep), Len(s))

WAV == <<".","w","a","v">>
MP3 == <<".","m","p","3">>
OGG == <<".","o","g","g">>

\* The absent value of an optional name or path (Python's None).
None == <<"<None>">>

\* ------------------------------------------------- voice service: data

\* UPLOAD_DIR / "temp.wav"
TempWavPath == <<"t","e","m","p",".","w","a","v">>

\* UPLOAD_DIR / f"generated_{request.voice_id}.wav"
GeneratedPath(voice_id) == <<"g","e","n","e","r","a","t","e","d","_">> \o voice_id \o WAV

\* UPLOAD_DIR / f"{name}_embedding.pt"
EmbeddingPath(name) == name \o <<"_","e","m","b","e","d","d","i","n","g",".","p","t">>

\* UPLOAD_DIR / f"{name}_{audio.filename}"
UploadPath(name, filename) == name \o <<"_">> \o filename

\* f"voice_{os.urandom(4).hex()}"
GeneratedName(token) == <<"v","o","i","c","e","_">> \o token

\* The file type check without lower(): "x.Mp3" is refused.
ValidFileTypeCaseSensitive(filename) ==
    \/ EndsWith(filename, WAV)
    \/ EndsWith(filename, MP3)
    \/ EndsWith(filename, OGG)

\* audio.filename.lower().endswith(('.wav', '.mp3', '.ogg'))
ValidFileType(filename) ==
    \/ EndsWith(Lower(filename), WAV)
    \/ EndsWith(Lower(filename), MP3)
    \/ EndsWith(Lower(filename), OGG)

\* not file_path.suffix.lower() == '.wav'
NeedsWavConversion(file_path) == Lower(Suffix(file_path)) # WAV

\* Values of os.urandom(4).hex() the model draws from.
HexTokens == {<<"0","0">>, <<"f","f">>}

\* The clone-voice requests the model draws from, <<name, audio.filename>>:
\* two distinct names whose upload paths coincide ("a_b_x.wav"), an upload to
\* convert, a request without name, and two file names that are not supported.
CloneInputs ==
    {<< <<"a">>,         <<"b","_","x",".","w","a","v">> >>,
     << <<"a","_","b">>, <<"x",".","w","a","v">> >>,
     << <<"a","_","b">>, <<"x",".","M","p","3">> >>,
     << None,            <<"x",".","O","G","G">> >>,
     << <<"a">>,         <<"x",".","t","x","t">> >>,
     << None,            <<"w","a","v">> >>}

\* The voice ids of the generate-speech requests: "a" has a persisted
\* embedding from the start, "a_b" has one once a clone-voice call saved it.
VoiceIds == {<<"a">>, <<"a","_","b">>}

\* A file: what it is, the request that wrote it, the request whose data it holds.
File(kind, by, data) == [kind |-> kind, by |-> by, data |-> data]

Exists(path) == path \in DOMAIN fs

WriteFile(dir, path, file) ==
    [p \in DOMAIN dir \cup {path} |-> IF p = path THEN file ELSE dir[p]]

RemoveFile(dir, path) == [p \in DOMAIN dir \ {path} |-> dir[p]]

\* A worker that holds no request.
Idle ==
    [id |-> 0, kind |-> "idle", pc |-> "idle",
     filename |-> None, name |-> None, voice_id |-> None, url |-> None,
     file_path |-> None, src_path |-> None, output_path |-> None,
     video_id |-> None, wav_path |-> None,
     target_se |-> 0, transcription |-> "None",
     embAtCheck |-> FALSE, branch |-> "none", calls |-> <<>>,
     wrote |-> {}, unlinkFailed |-> {}, trace |-> <<>>,
     status |-> 0, detail |-> "none"]

Free(w) == req[w].pc \in {"idle", "done"}

InFlight(w) == ~Free(w)

\* ------------------------------------- voice service: initialization

\* The handles the module-level initialization leaves, by the step that failed:
\* each handle is assigned by its constructor call and stays assigned when a
\* later step raises.
ModelsAfterInit(failure) ==
    CASE failure \in {"import", "no_checkpoints", "base_ctor"} -> <<"None", "None">>
      [] failure = "base_load" -> <<"constructed", "None">>
      [] failure = "conv_ctor" -> <<"loaded", "None">>
      [] failure = "conv_load" -> <<"loaded", "constructed">>
      [] failure = "none" -> <<"loaded", "loaded">>

\* main.py:38-84, run once when the module is imported.
ModelInitialization ==
    /\ initPc = "boot"
    /\ \E import_ok, base_ckpt, conv_ckpt \in BOOLEAN,
          raises \in {"none", "base_ctor", "base_load", "conv_ctor", "conv_load"} :
          LET failure == IF ~import_ok THEN "import"
                         ELSE IF ~(base_ckpt /\ conv_ckpt) THEN "no_checkpoints"
                         ELSE raises
          IN  /\ base_speaker_tts' = ModelsAfterInit(failure)[1]
              /\ tone_color_converter' = ModelsAfterInit(failure)[2]
              /\ initFailure' = failure
    /\ initPc' = "serving"
    /\ UNCHANGED <<fs, req, served, ck>>

\* A request reaches the service and a free worker (the first one) takes it.
Accepts(w) ==
    /\ initPc = "serving"
    /\ Free(w)
    /\ \A v \in Workers : Free(v) => v = w \/ w = "w1"
    /\ served < MaxRequests
    /\ served' = served + 1

\* The request a worker has just taken.
NewRequest(kind) == [Idle EXCEPT !.kind = kind, !.id = served + 1]

\* The handler's response; an HTTPException carries status and detail.
Respond(w, r, status, detail, pc) ==
    req' = [req EXCEPT ![w] = [r EXCEPT !.status = status, !.detail = detail, !.pc = pc]]

Handles == <<base_speaker_tts, tone_color_converter, initPc, initFailure>>
\* ----------------------------------------- voice service: clone-voice

\* main.py:97-121: a request arrives; the model check, the file type check,
\* the name.
CloneVoice(w) ==
    /\ Accepts(w)
    /\ \E input \in CloneInputs :
       LET r == [NewRequest("clone") EXCEPT !.name = input[1], !.filename = input[2]] IN
       IF tone_color_converter = "None"
       THEN Respond(w, r, 500, "models not initialized", "done")
       ELSE IF ~ValidFileType(r.filename)
       THEN Respond(w, r, 400, "unsupported file type", "done")
       ELSE \E token \in HexTokens :
                LET name == IF r.name = None THEN GeneratedName(token) ELSE r.name
                IN  req' = [req EXCEPT ![w] =
                               [r EXCEPT !.name = name,
                                         !.file_path = UploadPath(name, r.filename),
                                         !.pc = "save"]]
    /\ UNCHANGED <<Handles, fs, ck>>

\* main.py:122-123: open(file_path, "wb") and copyfileobj; an error reaches
\* the handler's last except clause (183-185).
CloneSave(w) ==
    LET r == req[w] IN
    /\ r.kind = "clone" /\ r.pc = "save"
    /\ \E outcome \in {"ok", "raise"} :
          /\ fs' = IF outcome = "raise" THEN fs
                   ELSE WriteFile(fs, r.file_path, File("upload", r.id, r.id))
          /\ LET r1 == [r EXCEPT !.wrote = IF outcome = "raise" THEN @
                                           ELSE @ \cup {r.file_path}]
             IN  IF outcome = "ok"
                 THEN req' = [req EXCEPT ![w] =
                                 [r1 EXCEPT !.pc = IF NeedsWavConversion(r.file_path)
                                                   THEN "convert" ELSE "extract"]]
                 ELSE Respond(w, r1, 500, "error", "done")
    /\ UNCHANGED <<Handles, served, ck>>

\* main.py:128-144: librosa.load of the upload, sf.write of the .wav beside it.
CloneConvert(w) ==
    LET r == req[w]
        wav_path == WithSuffix(r.file_path, WAV)
    IN
    /\ r.kind = "clone" /\ r.pc = "convert"
    /\ \E outcome \in {"ok", "raise"} :
          IF outcome = "ok" /\ Exists(r.file_path)
          THEN /\ fs' = WriteFile(fs, wav_path, File("wav", r.id, fs[r.file_path].data))
               /\ req' = [req EXCEPT ![w] =
                             [r EXCEPT !.file_path = wav_path,
                                       !.wrote = @ \cup {wav_path},
                                       !.pc = "extract"]]
          ELSE /\ fs' = fs
               /\ Respond(w, r, 500, "error converting audio to WAV", "done")
    /\ UNCHANGED <<Handles, served, ck>>

\* main.py:147-161: se_extractor.get_se reads file_path.
CloneExtract(w) ==
    LET r == req[w] IN
    /\ r.kind = "clone" /\ r.pc = "extract"
    /\ \E outcome \in {"ok", "raise"} :
          IF outcome = "ok" /\ Exists(r.file_path)
          THEN req' = [req EXCEPT ![w] =
                          [r EXCEPT !.target_se = fs[r.file_path].data,
                                    !.pc = "save_embedding"]]
          ELSE Respond(w, r, 500, "error extracting speaker embedding", "done")
    /\ UNCHANGED <<Handles, fs, served, ck>>

\* main.py:164-180: torch.save of the embedding, then the response.
CloneSaveEmbedding(w) ==
    LET r == req[w]
        embedding_path == EmbeddingPath(r.name)
    IN
    /\ r.kind = "clone" /\ r.pc = "save_embedding"
    /\ \E outcome \in {"ok", "raise"} :
          IF outcome = "ok"
          THEN /\ fs' = WriteFile(fs, embedding_path, File("se", r.id, r.target_se))
               /\ Respond(w, [r EXCEPT !.wrote = @ \cup {embedding_path}],
                          200, "success", "done")
          ELSE /\ fs' = fs
               /\ Respond(w, r, 500, "error saving speaker embedding", "done")
    /\ UNCHANGED <<Handles, served, ck>>
\* -------------------------------------- voice service: generate-speech

\* The test of the wrong file: the generated output instead of the embedding.
IsCustomVoiceByOutput(dir, voice_id) == GeneratedPath(voice_id) \in DOMAIN dir

\* main.py:203: embedding_path.exists()
IsCustomVoice(dir, voice_id) == EmbeddingPath(voice_id) \in DOMAIN dir

\* main.py:246-248: any exception becomes a 500; the finally clause follows.
GenFail(w, r) == Respond(w, r, 500, "error", "cleanup_src")

\* main.py:187-203 and 230: a request arrives; the model check, then the
\* choice of the path.
GenerateSpeech(w) ==
    /\ Accepts(w)
    /\ \E voice_id \in VoiceIds :
       LET r == [NewRequest("gen") EXCEPT !.voice_id = voice_id] IN
       IF base_speaker_tts = "None" \/ tone_color_converter = "None"
       THEN GenFail(w, r)
       ELSE LET r1 == [r EXCEPT !.embAtCheck = Exists(EmbeddingPath(r.voice_id))]
            IN  IF IsCustomVoice(fs, r.voice_id)
                THEN req' = [req EXCEPT ![w] =
                                [r1 EXCEPT !.branch = "custom", !.pc = "load_se"]]
                ELSE req' = [req EXCEPT ![w] =
                                [r1 EXCEPT !.branch = "builtin",
                                           !.output_path = GeneratedPath(r.voice_id),
                                           !.pc = "tts_direct"]]
    /\ UNCHANGED <<Handles, fs, ck>>

\* main.py:205-208: torch.load(embedding_path), then src_path is set.
GenLoadEmbedding(w) ==
    LET r == req[w] IN
    /\ r.kind = "gen" /\ r.pc = "load_se"
    /\ \E outcome \in {"ok", "raise"} :
          IF outcome = "ok" /\ Exists(EmbeddingPath(r.voice_id))
          THEN req' = [req EXCEPT ![w] =
                          [r EXCEPT !.target_se = fs[EmbeddingPath(r.voice_id)].data,
                                    !.src_path = TempWavPath,
                                    !.pc = "tts_base"]]
          ELSE GenFail(w, r)
    /\ UNCHANGED <<Handles, fs, served, ck>>

\* speaker='default'
DefaultSpeaker == <<"d","e","f","a","u","l","t">>

\* base_speaker_tts.tts(text, output_path, speaker, ...): it may raise before
\* or after it has written (part of) its output; when it returns, the handler
\* goes on at pc with output_path set.
Tts(w, r, speaker, out, output_path, pc) ==
    \E outcome \in {"ok", "raise", "raise_partial"} :
        LET r1 == [r EXCEPT !.calls = Append(@, <<"tts", speaker, out>>),
                            !.wrote = IF outcome = "raise" THEN @ ELSE @ \cup {out}]
        IN  /\ fs' = IF outcome = "raise" THEN fs
                     ELSE WriteFile(fs, out, File("speech", r.id, r.id))
            /\ IF outcome = "ok"
               THEN req' = [req EXCEPT ![w] =
                               [r1 EXCEPT !.output_path = output_path, !.pc = pc]]
               ELSE GenFail(w, r1)

\* main.py:209-218: base speech with the default speaker into src_path, then
\* output_path is set.
GenTtsBase(w) ==
    LET r == req[w] IN
    /\ r.kind = "gen" /\ r.pc = "tts_base"
    /\ Tts(w, r, DefaultSpeaker, r.src_path, GeneratedPath(r.voice_id), "convert")
    /\ UNCHANGED <<Handles, served, ck>>

\* main.py:219-227: the source embedding is loaded and the converter reads
\* src_path and writes output_path.
GenConvert(w) ==
    LET r == req[w] IN
    /\ r.kind = "gen" /\ r.pc = "convert"
    /\ \E outcome \in {"ok", "raise_load", "raise", "raise_partial"} :
          LET called == outcome # "raise_load"
              reads  == called /\ Exists(r.src_path)
              writes == reads /\ outcome \in {"ok", "raise_partial"}
              r1 == [r EXCEPT !.calls = IF called
                                        THEN Append(@, <<"convert", r.src_path, r.output_path>>)
                                        ELSE @,
                              !.wrote = IF writes THEN @ \cup {r.output_path} ELSE @]
          IN  /\ fs' = IF writes
                       THEN WriteFile(fs, r.output_path,
                                      File("speech", r.id, fs[r.src_path].data))
                       ELSE fs
              /\ IF writes /\ outcome = "ok"
                 THEN req' = [req EXCEPT ![w] = [r1 EXCEPT !.pc = "read"]]
                 ELSE GenFail(w, r1)
    /\ UNCHANGED <<Handles, served, ck>>

\* main.py:230-237: the base model speaks with the voice id as speaker.
GenTtsDirect(w) ==
    LET r == req[w] IN
    /\ r.kind = "gen" /\ r.pc = "tts_direct"
    /\ Tts(w, r, r.voice_id, r.output_path, r.output_path, "read")
    /\ UNCHANGED <<Handles, served, ck>>

\* main.py:242-245: the output is read into memory and becomes the response.
GenRead(w) ==
    LET r == req[w] IN
    /\ r.kind = "gen" /\ r.pc = "read"
    /\ \E outcome \in {"ok", "raise"} :
          IF outcome = "ok" /\ Exists(r.output_path)
          THEN Respond(w, r, 200, "audio/wav", "cleanup_src")
          ELSE GenFail(w, r)
    /\ UNCHANGED <<Handles, fs, served, ck>>

\* A finally block that forgets the output waveform.
ShouldUnlinkTempOnly(dir, path) == path = TempWavPath /\ path \in DOMAIN dir

\* main.py:251 and 256: `path and path.exists()`
ShouldUnlink(dir, path) == path # None /\ path \in DOMAIN dir

\* One clause of the finally block: unlink the file when it is there; an error
\* of unlink is logged and the file stays.
Unlink(w, r, path, pc) ==
    IF ShouldUnlink(fs, path)
    THEN \E outcome \in {"ok", "raise"} :
            /\ fs' = IF outcome = "ok" THEN RemoveFile(fs, path) ELSE fs
            /\ req' = [req EXCEPT ![w] =
                          [r EXCEPT !.unlinkFailed = IF outcome = "ok" THEN @
                                                     ELSE @ \cup {path},
                                    !.pc = pc]]
    ELSE /\ fs' = fs
         /\ req' = [req EXCEPT ![w] = [r EXCEPT !.pc = pc]]

\* main.py:251-255
GenCleanupSrc(w) ==
    LET r == req[w] IN
    /\ r.kind = "gen" /\ r.pc = "cleanup_src"
    /\ Unlink(w, r, r.src_path, "cleanup_out")
    /\ UNCHANGED <<Handles, served, ck>>

\* main.py:256-260; the response (or the HTTPException) leaves the handler.
GenCleanupOut(w) ==
    LET r == req[w] IN
    /\ r.kind = "gen" /\ r.pc = "cleanup_out"
    /\ Unlink(w, r, r.output_path, "done")
    /\ UNCHANGED <<Handles, served, ck>>

\* ---------------------------------------------- voice service: voices

\* main.py:265: `base_speaker_tts is None`
VoicesUnavailable == base_speaker_tts = "None"

\* main.py:262-283: the speakers of the base model's configuration, which its
\* constructor read.
ListVoices(w) ==
    LET r == NewRequest("voices") IN
    /\ Accepts(w)
    /\ IF VoicesUnavailable
       THEN Respond(w, r, 500, "models not initialized", "done")
       ELSE Respond(w, r, 200, "voices", "done")
    /\ UNCHANGED <<Handles, fs, ck>>

\* ----------------------------------------- voice service: specification

\* The uploads directory at startup: it holds the embedding of voice "a",
\* which an earlier run of the service persisted.
InitUploads == WriteFile(<<>>, EmbeddingPath(<<"a">>), File("se", 0, 0))

CkIdle == [pc |-> "off", runs |-> 0, i |-> 0, chunks |-> 0, before |-> <<>>,
           attempted |-> {}, processed |-> {}, failed |-> {}]

Init ==
    /\ base_speaker_tts = "None"
    /\ tone_color_converter = "None"
    /\ initPc = "boot"
    /\ initFailure = "none"
    /\ fs = InitUploads
    /\ req = [w \in Workers |-> Idle]
    /\ served = 0
    /\ ck = CkIdle

Next ==
    \/ ModelInitialization
    \/ \E w \in Workers :
          \/ CloneVoice(w)
          \/ CloneSave(w)
          \/ CloneConvert(w)
          \/ CloneExtract(w)
          \/ CloneSaveEmbedding(w)
          \/ GenerateSpeech(w)
          \/ GenLoadEmbedding(w)
          \/ GenTtsBase(w)
          \/ GenConvert(w)
          \/ GenTtsDirect(w)
          \/ GenRead(w)
          \/ GenCleanupSrc(w)
          \/ GenCleanupOut(w)
          \/ ListVoices(w)

Spec == Init /\ [][Next]_vars

\* ------------------------------------------------ transcription service

\* The urls of the transcribe requests: two with the v= parameter, one without.
Urls == {<<"w","?","v","=","x">>, <<"w","?","v","=","y">>, <<"b","e","/","x">>}

\* url.split("v=")[-1]
VideoId(url) == SplitLast(url, <<"v","=">>)

ExtField == <<"%","(","e","x","t",")","s">>

\* DOWNLOAD_DIR / f"{video_id}.%(ext)s"
OutputTemplate(video_id) == video_id \o <<".">> \o ExtField

\* output_path.with_suffix('.wav')
WavPath(output_path) == WithSuffix(output_path, WAV)

\* The file the downloader writes for 'outtmpl': the template with its
\* %(ext)s field filled in.
Downloaded(output_path, ext) ==
    IF EndsWith(output_path, ExtField)
    THEN SubSeq(output_path, 1, Len(output_path) - Len(ExtField)) \o ext
    ELSE output_path

\* whisper_service/main.py:25-28 and transcribe.py:62-65: a request arrives,
\* the video id and the output template are derived from its url.
Transcribe(w) ==
    /\ Accepts(w)
    /\ \E url \in Urls :
          req' = [req EXCEPT ![w] =
                     [NewRequest("transcribe") EXCEPT
                         !.url = url,
                         !.video_id = VideoId(url),
                         !.output_path = OutputTemplate(VideoId(url)),
                         !.trace = <<"received">>,
                         !.pc = "download"]]
    /\ UNCHANGED <<Handles, fs, ck>>

\* transcribe.py:68-69: what process_youtube_video does when the download
\* returned False.
AfterDownloadFailed(r) ==
    [r EXCEPT !.transcription = "None", !.pc = "respond"]

\* transcribe.py:16-38 and 68-72: the downloader fetches the audio stream and
\* its post-processor writes the .wav; on an error it returns False, having
\* written nothing or having left the stream it fetched.
Download(w) ==
    LET r == req[w] IN
    /\ r.kind = "transcribe" /\ r.pc = "download"
    /\ \E outcome \in {"ok", "raise", "raise_partial"} :
          LET out == Downloaded(r.output_path,
                                IF outcome = "ok" THEN <<"w","a","v">>
                                ELSE <<"w","e","b","m">>)
              r1 == [r EXCEPT !.wrote = IF outcome = "raise" THEN @ ELSE @ \cup {out},
                              !.trace = @ \o <<"downloading",
                                               IF outcome = "ok" THEN "downloaded"
                                               ELSE "download_failed">>]
          IN  /\ fs' = IF outcome = "raise" THEN fs
                       ELSE WriteFile(fs, out, File("audio", r.id, r.id))
              /\ req' = [req EXCEPT ![w] =
                            IF outcome = "ok"
                            THEN [r1 EXCEPT !.wav_path = WavPath(r.output_path),
                                            !.pc = "transcribe"]
                            ELSE AfterDownloadFailed(r1)]
    /\ UNCHANGED <<Handles, served, ck>>

\* transcribe.py:40-56 and 75: the model is loaded and reads wav_path; any
\* error gives None.
TranscribeAudio(w) ==
    LET r == req[w] IN
    /\ r.kind = "transcribe" /\ r.pc = "transcribe"
    /\ \E outcome \in {"text", "empty", "raise"} :
          LET result == IF outcome = "raise" \/ ~Exists(r.wav_path)
                        THEN "None" ELSE outcome
          IN  req' = [req EXCEPT ![w] =
                         [r EXCEPT !.transcription = result,
                                   !.trace = @ \o <<"transcribing",
                                                    IF result = "None"
                                                    THEN "transcription_failed"
                                                    ELSE "transcribed">>,
                                   !.pc = "cleanup"]]
    /\ UNCHANGED <<Handles, fs, served, ck>>

\* transcribe.py:78-82: os.remove(wav_path); an error is logged.
RemoveDownloaded(w) ==
    LET r == req[w] IN
    /\ r.kind = "transcribe" /\ r.pc = "cleanup"
    /\ \E outcome \in {"ok", "raise"} :
          LET removed == outcome = "ok" /\ Exists(r.wav_path)
          IN  /\ fs' = IF removed THEN RemoveFile(fs, r.wav_path) ELSE fs
              /\ req' = [req EXCEPT ![w] =
                            [r EXCEPT !.unlinkFailed = IF removed THEN @
                                                       ELSE @ \cup {r.wav_path},
                                      !.trace = Append(@, "cleaned_up"),
                                      !.pc = "respond"]]
    /\ UNCHANGED <<Handles, served, ck>>

\* whisper_service/main.py:31-48: `transcription is None` is a 500.
TranscribeRespond(w) ==
    LET r == req[w]
        r1 == [r EXCEPT !.trace = Append(@, "responded")]
    IN
    /\ r.kind = "transcribe" /\ r.pc = "respond"
    /\ IF r.transcription = "None"
       THEN Respond(w, r1, 500, "Failed to transcribe video", "done")
       ELSE Respond(w, r1, 200, "success", "done")
    /\ UNCHANGED <<Handles, fs, served, ck>>

\* The transcription service has no startup initialization; its downloads
\* directory starts empty.
InitTranscription ==
    /\ base_speaker_tts = "None"
    /\ tone_color_converter = "None"
    /\ initPc = "serving"
    /\ initFailure = "none"
    /\ fs = <<>>
    /\ req = [w \in Workers |-> Idle]
    /\ served = 0
    /\ ck = CkIdle

NextTranscription ==
    \E w \in Workers :
        \/ Transcribe(w)
        \/ Download(w)
        \/ TranscribeAudio(w)
        \/ RemoveDownloaded(w)
        \/ TranscribeRespond(w)

SpecTranscription == InitTranscription /\ [][NextTranscription]_vars

\* -------------------------------------------- checkpoint download script

\* checkpoint_urls, in the order the loop visits it.
Artifacts == << <<"model.pt">>, <<"config.json">> >>

ArtifactSet == {Artifacts[i] : i \in 1..Len(Artifacts)}

\* download_checkpoints.py:34: `not destination.exists()`
ShouldDownload(dir, destination) == destination \notin DOMAIN dir

\* The loop goes on with the next artifact.
NextArtifact(c, destination) ==
    [c EXCEPT !.processed = @ \cup {destination}, !.i = @ + 1, !.chunks = 0, !.pc = "loop"]

\* The loop without its except clause: the exception ends the script.
DownloadFailedAborts(c, destination) ==
    [c EXCEPT !.failed = @ \cup {destination}, !.pc = "crashed"]

\* download_checkpoints.py:36-40: an exception of download_file is caught and
\* logged, and the loop goes on.
DownloadFailed(c, destination) ==
    NextArtifact([c EXCEPT !.failed = @ \cup {destination}], destination)

\* download_checkpoints.py:20-23: the script starts; the checkpoint directory
\* is created when missing.
CkStart ==
    /\ ck.pc \in {"off", "exited"}
    /\ ck.runs < MaxRuns
    /\ ck' = [CkIdle EXCEPT !.pc = "loop", !.runs = ck.runs + 1, !.i = 1, !.before = fs]
    /\ UNCHANGED <<Handles, fs, req, served>>

\* download_checkpoints.py:32-42: the loop head and the test of the destination.
CkVisit ==
    /\ ck.pc = "loop"
    /\ IF ck.i > Len(Artifacts)
       THEN ck' = [ck EXCEPT !.pc = "exited"]
       ELSE LET destination == Artifacts[ck.i]
            IN  IF ShouldDownload(fs, destination)
                THEN ck' = [ck EXCEPT !.attempted = @ \cup {destination}, !.pc = "get"]
                ELSE ck' = NextArtifact(ck, destination)
    /\ UNCHANGED <<Handles, fs, req, served>>

\* download_checkpoints.py:12-13: requests.get and raise_for_status.
CkGet ==
    /\ ck.pc = "get"
    /\ \E outcome \in {"ok", "raise"} :
          ck' = IF outcome = "ok" THEN [ck EXCEPT !.pc = "open"]
                ELSE DownloadFailed(ck, Artifacts[ck.i])
    /\ UNCHANGED <<Handles, fs, req, served>>

\* download_checkpoints.py:15: open(destination, 'wb') creates the file empty.
CkOpen ==
    /\ ck.pc = "open"
    /\ \E outcome \in {"ok", "raise"} :
          IF outcome = "ok"
          THEN /\ fs' = WriteFile(fs, Artifacts[ck.i], File("checkpoint", ck.runs, 0))
               /\ ck' = [ck EXCEPT !.pc = "write"]
          ELSE /\ fs' = fs
               /\ ck' = DownloadFailed(ck, Artifacts[ck.i])
    /\ UNCHANGED <<Handles, req, served>>

\* download_checkpoints.py:16-18: one turn of the chunk loop: a chunk is
\* written, the body ends, or the connection fails.
CkWrite ==
    /\ ck.pc = "write"
    /\ \E outcome \in {"chunk", "end", "raise"} :
          CASE outcome = "chunk" ->
                  /\ ck.chunks < MaxChunks
                  /\ fs' = WriteFile(fs, Artifacts[ck.i],
                                     File("checkpoint", ck.runs, ck.chunks + 1))
                  /\ ck' = [ck EXCEPT !.chunks = @ + 1]
            [] outcome = "end" ->
                  /\ fs' = fs
                  /\ ck' = NextArtifact(ck, Artifacts[ck.i])
            [] outcome = "raise" ->
                  /\ fs' = fs
                  /\ ck' = DownloadFailed(ck, Artifacts[ck.i])
    /\ UNCHANGED <<Handles, req, served>>

\* The checkpoint directory before the first run: each artifact is there (from
\* an earlier download) or not.
InitCheckpoints ==
    /\ base_speaker_tts = "None"
    /\ tone_color_converter = "None"
    /\ initPc = "boot"
    /\ initFailure = "none"
    /\ \E present \in SUBSET ArtifactSet :
          fs = [p \in present |-> File("checkpoint", 0, MaxChunks)]
    /\ req = [w \in Workers |-> Idle]
    /\ served = 0
    /\ ck = CkIdle

NextCheckpoints ==
    \/ CkStart
    \/ CkVisit
    \/ CkGet
    \/ CkOpen
    \/ CkWrite

SpecCheckpoints == InitCheckpoints /\ [][NextCheckpoints]_vars

\* ================================================================ claims

Done(w, kind) == req[w].kind = kind /\ req[w].pc = "done"

\* The files on disk that the request of worker w wrote.
OwnFiles(w) == {p \in DOMAIN fs : fs[p].by = req[w].id}

\* ---------------------------------------------------------------- C1

\* C1 (as stated): after a generate-speech call has returned, with a success
\* or with a failure at any step, no waveform it wrote (temp.wav, or
\* generated_<voice_id>.wav) is left on disk.
C1_NoWaveformRemains ==
    \A w \in Workers : Done(w, "gen") => OwnFiles(w) = {}

\* C1 (amended): after a generate-speech call has returned, a waveform it
\* wrote is left on disk only if the unlink of that file in the finally block
\* raised (which is logged and not reported to the caller).
C1_NoWaveformRemainsUnlessUnlinkFailed ==
    \A w \in Workers : Done(w, "gen") => OwnFiles(w) \subseteq req[w].unlinkFailed

\* A custom-voice request that wrote both waveforms, failed after that, and
\* left nothing.
C1_Witness ==
    \E w \in Workers :
        /\ Done(w, "gen")
        /\ req[w].status = 500
        /\ req[w].wrote = {TempWavPath, GeneratedPath(req[w].voice_id)}
        /\ req[w].unlinkFailed = {}
        /\ OwnFiles(w) = {}

\* ---------------------------------------------------------------- C2

\* C2: after a transcribe call has returned, whether the download and the
\* transcription succeeded or failed, no file the request downloaded is left
\* in the downloads directory.
C2_NoDownloadRemains ==
    \A w \in Workers : Done(w, "transcribe") => OwnFiles(w) = {}

\* ---------------------------------------------------------------- C3

\* The transient files of a request: the intermediate and the output
\* waveform of generate-speech, the download of transcribe.
TransientPaths(w) == {req[w].src_path, req[w].output_path, req[w].wav_path} \ {None}

\* C3: two requests in flight at the same time never use the same transient
\* file path.
C3_TransientPathsDisjoint ==
    \A w1, w2 \in Workers :
        (w1 # w2 /\ InFlight(w1) /\ InFlight(w2))
            => TransientPaths(w1) \cap TransientPaths(w2) = {}

\* ---------------------------------------------------------------- C4

\* C4: when the model initialization did not complete, voices answers 500
\* and never a voice list.
C4_VoicesUnavailableAfterFailedInit ==
    \A w \in Workers :
        (Done(w, "voices") /\ initFailure # "none") => req[w].status = 500

\* ---------------------------------------------------------------- C5

\* C5: after the initialization the two model handles are both set or both
\* unset, and both unset when any step of it failed.
C5_HandlesAllOrNothing ==
    initPc = "serving" =>
        /\ (base_speaker_tts = "None") <=> (tone_color_converter = "None")
        /\ initFailure # "none" =>
              (base_speaker_tts = "None" /\ tone_color_converter = "None")

\* ---------------------------------------------------------------- C6

\* The file names the claim calls supported: the last four characters are
\* .wav, .mp3 or .ogg in any case.
SupportedExtension(filename) ==
    /\ Len(filename) >= 4
    /\ Lower(SubSeq(filename, Len(filename) - 3, Len(filename))) \in {WAV, MP3, OGG}

PassedValidation(w) == req[w].file_path # None /\ req[w].status # 400

Refused(w, status) ==
    /\ req[w].pc = "done"
    /\ req[w].status = status
    /\ req[w].file_path = None
    /\ req[w].wrote = {}

\* C6 (as stated): every clone-voice request with a supported file name goes
\* on to the upload-save step, and every other one is answered 400 and writes
\* no file.
C6_ValidationByExtension ==
    \A w \in Workers :
        req[w].kind = "clone" =>
            IF SupportedExtension(req[w].filename)
            THEN PassedValidation(w)
            ELSE Refused(w, 400)

\* C6 (amended): when the converter is initialized, a clone-voice request with
\* a supported file name goes on to the upload-save step and every other one
\* is answered 400 and writes no file; when the converter is not initialized,
\* every clone-voice request is answered 500 and writes no file.
C6_ValidationByExtensionWhenInitialized ==
    \A w \in Workers :
        req[w].kind = "clone" =>
            IF tone_color_converter = "None" THEN Refused(w, 500)
            ELSE IF SupportedExtension(req[w].filename) THEN PassedValidation(w)
            ELSE Refused(w, 400)

\* One request with an upper-case supported extension is at the upload-save
\* step while another, whose name only ends in "wav", was refused.
C6_Witness ==
    \E w1, w2 \in Workers :
        /\ req[w1].kind = "clone" /\ req[w1].pc = "save"
        /\ req[w1].filename = <<"x",".","O","G","G">>
        /\ req[w2].kind = "clone" /\ Refused(w2, 400)
        /\ req[w2].filename = <<"w","a","v">>

\* ---------------------------------------------------------------- C7

\* C7: when two clone-voice requests with distinct names have both succeeded,
\* each <name>_embedding.pt was written by its own request and holds the
\* embedding of that request's own upload.
C7_OwnEmbedding ==
    \A w1, w2 \in Workers :
        (/\ w1 # w2
         /\ Done(w1, "clone") /\ req[w1].status = 200
         /\ Done(w2, "clone") /\ req[w2].status = 200
         /\ req[w1].name # req[w2].name)
        => /\ Exists(EmbeddingPath(req[w1].name))
           /\ fs[EmbeddingPath(req[w1].name)].by = req[w1].id
           /\ fs[EmbeddingPath(req[w1].name)].data = req[w1].id

\* ---------------------------------------------------------------- C8

CustomCalls(r) ==
    << <<"tts", DefaultSpeaker, TempWavPath>>,
       <<"convert", TempWavPath, GeneratedPath(r.voice_id)>> >>

BuiltinCalls(r) == << <<"tts", r.voice_id, GeneratedPath(r.voice_id)>> >>

IsPrefix(s, t) == Len(s) <= Len(t) /\ s = SubSeq(t, 1, Len(s))

\* C8: with both models initialized, a generate-speech request whose voice id
\* had a persisted embedding when it was checked synthesizes with the default
\* speaker into temp.wav and then converts; one whose voice id had none
\* synthesizes with the voice id as speaker and never calls the converter.
C8_PathByEmbedding ==
    \A w \in Workers :
        (req[w].kind = "gen" /\ req[w].branch # "none") =>
            LET r == req[w]
                expected == IF r.embAtCheck THEN CustomCalls(r) ELSE BuiltinCalls(r)
            IN  /\ r.branch = IF r.embAtCheck THEN "custom" ELSE "builtin"
                /\ IsPrefix(r.calls, expected)
                /\ r.status = 200 => r.calls = expected

\* Both paths were taken to a successful end: the converted voice "a" and the
\* built-in speaker "a_b".
C8_Witness ==
    \E w1, w2 \in Workers :
        /\ Done(w1, "gen") /\ req[w1].status = 200
        /\ req[w1].embAtCheck /\ Len(req[w1].calls) = 2
        /\ Done(w2, "gen") /\ req[w2].status = 200
        /\ ~req[w2].embAtCheck /\ Len(req[w2].calls) = 1

\* ---------------------------------------------------------------- C9

Occurrences(t, x) == Cardinality({i \in 1..Len(t) : t[i] = x})

Position(t, x) == CHOOSE i \in 1..Len(t) : t[i] = x

Before(t, x, y) ==
    /\ Occurrences(t, x) = 1
    /\ Occurrences(t, y) = 1
    /\ Position(t, x) < Position(t, y)

\* C9: a transcribe request downloads once, transcribes once and only after a
\* successful download, cleans up on every path before it responds, and
\* answers with the text exactly when download and transcription succeeded
\* (else 500).
C9_TranscribeOrder ==
    \A w \in Workers :
        Done(w, "transcribe") =>
            LET t == req[w].trace IN
            /\ t[1] = "received"
            /\ Before(t, "received", "downloading")
            /\ Occurrences(t, "transcribing") <= 1
            /\ Occurrences(t, "transcribing") = 1 => Before(t, "downloaded", "transcribing")
            /\ Occurrences(t, "download_failed") = 1 => Occurrences(t, "transcribing") = 0
            /\ Before(t, "cleaned_up", "responded")
            /\ req[w].status = IF Occurrences(t, "downloaded") = 1
                                  /\ Occurrences(t, "transcribed") = 1
                               THEN 200 ELSE 500

\* --------------------------------------------------------------- C10

Running == ck.pc \in {"loop", "get", "open", "write"}

====
